---- MODULE Spec2Model ----
(***************************************************************************)
(* Model of rocket-apitoken (src/src/lib.rs): the ApiToken configuration   *)
(* (a HashSet of credential strings and an enabled flag), its constructor  *)
(* and add_bearer, and the Authorized request guard run by Rocket for      *)
(* concurrently handled requests.                                          *)
(*                                                                         *)
(* Strings are sequences of one-character strings, so that format!,        *)
(* HashSet::contains and the header variants are computed character by     *)
(* character.                                                              *)
(***************************************************************************)
EXTENDS Naturals, Sequences, FiniteSets

(* ---------------------------- bounds ----------------------------------- *)

\* longest raw token drawn from TokenChars
MaxLen == 1
\* longest token list handed to ApiToken::new
MaxInit == 1
\* most add_bearer calls made before the value is handed to Rocket
MaxAdds == 2
\* requests handled concurrently
NumReq == 2

(* ---------------------------- strings ---------------------------------- *)

TokenChars == {"a", " "}

RECURSIVE StringsOfLen(_)
StringsOfLen(n) ==
    IF n = 0 THEN {<<>>}
    ELSE {Append(s, c) : s \in StringsOfLen(n - 1), c \in TokenChars}

StringsUpTo(n) == UNION {StringsOfLen(k) : k \in 0..n}

\* the literal the code prefixes, "Bearer ", written out character by character
BearerLiteral == <<"B", "e", "a", "r", "e", "r", " ">>

\* format!("Bearer {}", token) that drops the separating space
FormatNoSpace(token) == <<"B", "e", "a", "r", "e", "r">> \o token

\* format!("Bearer {}", token)
Format(token) == <<"B", "e", "a", "r", "e", "r", " ">> \o token

\* raw tokens handed to new and add_bearer: short strings, and strings that
\* themselves look like a credential
RawTokens ==
    StringsUpTo(MaxLen) \cup {BearerLiteral \o s : s \in StringsUpTo(MaxLen - 1)}

LowerChar(c) == IF c = "B" THEN "b" ELSE c

\* the string with its scheme in lower case
Lower(s) == [i \in 1..Len(s) |-> LowerChar(s[i])]

\* the header variants of a raw token t
Exact(t) == BearerLiteral \o t
LowerScheme(t) == Lower(BearerLiteral) \o t
LeadingSpace(t) == <<" ">> \o BearerLiteral \o t
TrailingSpace(t) == BearerLiteral \o t \o <<" ">>

\* Authorization header values a request may carry
HeaderValues ==
    UNION {{Exact(t), LowerScheme(t), t, LeadingSpace(t), TrailingSpace(t)} :
           t \in RawTokens}

\* Option<&str>: None is the empty tuple, Some(v) the one-element tuple
None == <<>>
Some(v) == <<v>>
Headers == {None} \cup {Some(v) : v \in HeaderValues}

\* Vec<String> arguments of ApiToken::new
TokenLists == UNION {[1..n -> RawTokens] : n \in 0..MaxInit}

(* ---------------------------- outcomes --------------------------------- *)

\* rocket::http::Status::Unauthorized
Unauthorized == 401

NoOutcome == [kind |-> "None", status |-> 0, reason |-> ""]
Success == [kind |-> "Success", status |-> 0, reason |-> ""]
Error(status, reason) == [kind |-> "Error", status |-> status, reason |-> reason]
\* .expect("Token state not available.") on a missing state
Panic == [kind |-> "Panic", status |-> 0, reason |-> "Token state not available."]

InvalidToken == Error(Unauthorized, "invalid token")

\* a missing header reported with the reason of a bad token
HeaderNotFoundAsInvalid == Error(Unauthorized, "invalid token")

HeaderNotFound == Error(Unauthorized, "Authorization header not found")

(* ---------------------------- ApiToken --------------------------------- *)

\* ApiToken::new: every token prefixed, collected into a HashSet
New(list, flag) ==
    [tokens |-> {Format(list[i]) : i \in DOMAIN list}, enabled |-> flag]

\* an insert that replaces the set
InsertReplace(set, value) == {value}

\* an insert that removes a value already present
InsertToggle(set, value) ==
    IF value \in set THEN set \ {value} ELSE set \cup {value}

\* HashSet::insert
Insert(set, value) == set \cup {value}

\* a lookup that ignores the case of the scheme and surrounding spaces
ContainsNormalized(set, value) ==
    \E s \in set :
        \/ Lower(s) = Lower(value)
        \/ value = <<" ">> \o s
        \/ value = s \o <<" ">>
        \/ Format(value) = s

\* HashSet::contains
Contains(set, value) == value \in set

\* a guard that never skips the check
BypassNever(flag) == FALSE

\* if !token.enabled { return Outcome::Success(Authorized) }
Bypass(flag) == ~flag

\* from_request after the state lookup, run alone on one ApiToken value
Guard(set, flag, header) ==
    IF Bypass(flag) THEN Success
    ELSE IF header = None THEN HeaderNotFound
    ELSE IF Contains(set, header[1]) THEN Success
    ELSE InvalidToken

VARIABLES
    tokens,     \* ApiToken.tokens
    enabled,    \* ApiToken.enabled
    managed,    \* the ApiToken was handed to rocket::build().manage()
    phase,      \* "build" until the Rocket instance is launched, then "orbit"
    reqs,       \* per request slot: position in from_request, header, outcome
    passed,     \* raw tokens that were passed to new or add_bearer
    adds,       \* number of add_bearer calls so far
    lastAdd     \* argument of the latest add_bearer call, None before the first

vars == <<tokens, enabled, managed, phase, reqs, passed, adds, lastAdd>>

Slots == 1..NumReq

\* overlapped records that the request took a step of the guard while another
\* request was inside the guard
Idle == [pc |-> "idle", header |-> None, outcome |-> NoOutcome, overlapped |-> FALSE]

InGuard(q) == reqs[q].pc \in {"enabled", "contains"}

OthersInGuard(r) == \E q \in Slots \ {r} : InGuard(q)

Init ==
    \E list \in TokenLists, flag \in BOOLEAN :
        /\ tokens = New(list, flag).tokens
        /\ enabled = New(list, flag).enabled
        /\ managed = FALSE
        /\ phase = "build"
        /\ reqs = [r \in Slots |-> Idle]
        /\ passed = {list[i] : i \in DOMAIN list}
        /\ adds = 0
        /\ lastAdd = None

\* ApiToken::add_bearer(&mut self, token): only while the value is still owned
\* by the builder, that is before manage() takes it
AddBearer(token) ==
    /\ phase = "build"
    /\ ~managed
    /\ adds < MaxAdds
    /\ tokens' = Insert(tokens, Format(token))
    /\ passed' = passed \cup {token}
    /\ adds' = adds + 1
    /\ lastAdd' = Some(token)
    /\ UNCHANGED <<enabled, managed, phase, reqs>>

\* rocket::build().manage(ApiToken::new(..))
Manage ==
    /\ phase = "build"
    /\ ~managed
    /\ managed' = TRUE
    /\ UNCHANGED <<tokens, enabled, phase, reqs, passed, adds, lastAdd>>

\* the Rocket instance is launched, with or without the managed state
Launch ==
    /\ phase = "build"
    /\ phase' = "orbit"
    /\ UNCHANGED <<tokens, enabled, managed, reqs, passed, adds, lastAdd>>

\* from_request, first statement: request.rocket().state::<ApiToken>().expect(..)
LookupState(r, header) ==
    /\ phase = "orbit"
    /\ reqs[r].pc = "idle"
    /\ reqs' = [reqs EXCEPT ![r] =
            IF managed
            THEN [pc |-> "enabled", header |-> header, outcome |-> NoOutcome,
                  overlapped |-> FALSE]
            ELSE [pc |-> "done", header |-> header, outcome |-> Panic,
                  overlapped |-> FALSE]]
    /\ UNCHANGED <<tokens, enabled, managed, phase, passed, adds, lastAdd>>

\* from_request: the test of token.enabled, then the match on
\* request.headers().get_one("Authorization")
CheckEnabled(r) ==
    /\ reqs[r].pc = "enabled"
    /\ reqs' = [reqs EXCEPT ![r] =
            IF Bypass(enabled)
            THEN [@ EXCEPT !.pc = "done", !.outcome = Success,
                           !.overlapped = @ \/ OthersInGuard(r)]
            ELSE IF @.header = None
            THEN [@ EXCEPT !.pc = "done", !.outcome = HeaderNotFound,
                           !.overlapped = @ \/ OthersInGuard(r)]
            ELSE [@ EXCEPT !.pc = "contains",
                           !.overlapped = @ \/ OthersInGuard(r)]]
    /\ UNCHANGED <<tokens, enabled, managed, phase, passed, adds, lastAdd>>

\* a lookup that uses the credential up: a matched credential leaves the set
CheckTokensConsume(r) ==
    /\ reqs[r].pc = "contains"
    /\ reqs' = [reqs EXCEPT ![r] =
            [@ EXCEPT !.pc = "done",
                      !.outcome = IF Contains(tokens, reqs[r].header[1])
                                  THEN Success ELSE InvalidToken,
                      !.overlapped = @ \/ OthersInGuard(r)]]
    /\ tokens' = tokens \ {reqs[r].header[1]}
    /\ UNCHANGED <<enabled, managed, phase, passed, adds, lastAdd>>

\* from_request, the Some(value) arm: token.tokens.contains(value)
CheckTokens(r) ==
    /\ reqs[r].pc = "contains"
    /\ reqs' = [reqs EXCEPT ![r] =
            [@ EXCEPT !.pc = "done",
                      !.outcome = IF Contains(tokens, reqs[r].header[1])
                                  THEN Success ELSE InvalidToken,
                      !.overlapped = @ \/ OthersInGuard(r)]]
    /\ UNCHANGED <<tokens, enabled, managed, phase, passed, adds, lastAdd>>

\* Rocket acts on the guard's outcome and the slot takes the next request
Respond(r) ==
    /\ reqs[r].pc = "done"
    /\ reqs' = [reqs EXCEPT ![r] = Idle]
    /\ UNCHANGED <<tokens, enabled, managed, phase, passed, adds, lastAdd>>

Next ==
    \/ \E token \in RawTokens : AddBearer(token)
    \/ Manage
    \/ Launch
    \/ \E r \in Slots, header \in Headers : LookupState(r, header)
    \/ \E r \in Slots : CheckEnabled(r)
    \/ \E r \in Slots : CheckTokens(r)
    \/ \E r \in Slots : Respond(r)

Spec == Init /\ [][Next]_vars

(* ---------------------------- claims ----------------------------------- *)

\* the guard reached its outcome on a managed ApiToken
Checked(r) == reqs[r].pc = "done" /\ managed

\* 401 with the given textual reason
Rejected(r, reason) ==
    reqs[r].outcome = [kind |-> "Error", status |-> 401, reason |-> reason]

Authorized(r) == reqs[r].outcome.kind = "Success"

\* C1: with enabled = true and a header value h present, the check yields
\* Authorized exactly when h is "Bearer " followed by a raw token that was
\* passed to new or add_bearer, and otherwise 401 "invalid token".
C1_ExactMatch ==
    \A r \in Slots :
        (Checked(r) /\ enabled /\ reqs[r].header # None) =>
            /\ Authorized(r) <=>
                   \E t \in passed : reqs[r].header[1] = BearerLiteral \o t
            /\ ~Authorized(r) => Rejected(r, "invalid token")

C1_Witness ==
    \E r1, r2 \in Slots :
        /\ Checked(r1) /\ Checked(r2) /\ enabled
        /\ reqs[r1].header # None /\ Authorized(r1)
        /\ reqs[r2].header # None /\ Rejected(r2, "invalid token")

\* C2: with enabled = false the check yields Authorized for every input,
\* whatever the accepted set: no header, a header that is not of the form
\* "Bearer <token>", a header naming a token that is not accepted.
C2_DisabledAuthorizesAll ==
    \A r \in Slots : (Checked(r) /\ ~enabled) => Authorized(r)

C2_Witness ==
    \E r1, r2 \in Slots :
        /\ ~enabled
        /\ Checked(r1) /\ reqs[r1].header = None /\ Authorized(r1)
        /\ Checked(r2) /\ reqs[r2].header # None /\ Authorized(r2)
        /\ reqs[r2].header[1] \notin tokens

\* C3 as stated: with enabled = true and no Authorization header the check
\* yields 401 with the reason "authorization header missing".
C3_AsClaimed ==
    \A r \in Slots :
        (Checked(r) /\ enabled /\ reqs[r].header = None) =>
            Rejected(r, "authorization header missing")

\* C3 amended: with enabled = true and no Authorization header the check
\* yields 401 with the reason "Authorization header not found".
C3_MissingHeader ==
    \A r \in Slots :
        (Checked(r) /\ enabled /\ reqs[r].header = None) =>
            Rejected(r, "Authorization header not found")

C3_Witness ==
    \E r \in Slots :
        /\ Checked(r) /\ enabled /\ reqs[r].header = None
        /\ reqs[r].outcome.kind = "Error"

\* a step that is a call of add_bearer
IsAddBearer == adds' = adds + 1

\* C4: add_bearer(t) makes the accepted set exactly the old set plus
\* "Bearer t" and leaves the enabled flag alone, and afterwards the header
\* "Bearer t" is authorized when enabled = true.
C4_AddBearerFrame ==
    /\ [][IsAddBearer =>
            /\ tokens' = tokens \cup {BearerLiteral \o lastAdd'[1]}
            /\ enabled' = enabled]_vars
    /\ [](\A r \in Slots :
            (/\ Checked(r) /\ enabled /\ lastAdd # None
             /\ reqs[r].header = Some(BearerLiteral \o lastAdd[1]))
                => Authorized(r))

C4_Witness ==
    \E r \in Slots :
        /\ Checked(r) /\ enabled /\ lastAdd # None
        /\ reqs[r].header = Some(BearerLiteral \o lastAdd[1])
        /\ Authorized(r)
        /\ Cardinality(tokens) > 1

\* C5: add_bearer(t) for a t that was already passed to add_bearer or to new
\* leaves the accepted set unchanged: same members, same size.
C5_AddBearerIdempotent ==
    [][(IsAddBearer /\ lastAdd'[1] \in passed) =>
            /\ tokens' = tokens
            /\ Cardinality(tokens') = Cardinality(tokens)]_vars

\* two calls were made and only one raw token was ever passed
C5_Witness == adds >= 2 /\ Cardinality(passed) = 1 /\ Cardinality(tokens) = 1

\* C6: the check is read-only: no step of the guard changes the accepted set
\* or the enabled flag, and two checks of the same input on the same state
\* have the same outcome.
C6_CheckReadOnly ==
    /\ [][reqs' # reqs => (tokens' = tokens /\ enabled' = enabled)]_vars
    /\ [](\A r1, r2 \in Slots :
            (Checked(r1) /\ Checked(r2) /\ reqs[r1].header = reqs[r2].header)
                => reqs[r1].outcome = reqs[r2].outcome)

C6_Witness ==
    \E r1, r2 \in Slots :
        /\ r1 # r2 /\ Checked(r1) /\ Checked(r2) /\ enabled
        /\ reqs[r1].header # None /\ reqs[r1].header = reqs[r2].header
        /\ Authorized(r1) /\ Authorized(r2)

\* the headers that differ from "Bearer t" by case, prefix or whitespace
Variants(t) ==
    {Some(LowerScheme(t)), Some(t), Some(LeadingSpace(t)), Some(TrailingSpace(t))}

IsPrefixedForm(header) == \E u \in passed : header[1] = BearerLiteral \o u

\* C7: with enabled = true and raw token t accepted, the headers "bearer t",
\* "t", " Bearer t" and "Bearer t " are Unauthorized unless the string is
\* itself the prefixed form of an accepted token.
C7_NoNormalization ==
    \A r \in Slots : \A t \in passed :
        (/\ Checked(r) /\ enabled
         /\ reqs[r].header \in Variants(t)
         /\ ~IsPrefixedForm(reqs[r].header))
            => (reqs[r].outcome.kind = "Error" /\ reqs[r].outcome.status = 401)

C7_Witness ==
    \E r1, r2 \in Slots : \E t \in passed :
        /\ Checked(r1) /\ Checked(r2) /\ enabled
        /\ reqs[r1].header = Some(LowerScheme(t))
        /\ reqs[r1].outcome.kind = "Error"
        /\ reqs[r2].header = Some(TrailingSpace(t))
        /\ reqs[r2].outcome.kind = "Error"

\* C8: in every interleaving of concurrent checks each check has the outcome
\* the guard gives when run alone on the state, and the state is the one
\* built by new and add_bearer.
C8_ConcurrentChecks ==
    /\ \A r \in Slots :
           Checked(r) => reqs[r].outcome = Guard(tokens, enabled, reqs[r].header)
    /\ tokens = {BearerLiteral \o t : t \in passed}

C8_Witness ==
    \E r1, r2 \in Slots :
        /\ r1 # r2 /\ Checked(r1) /\ Checked(r2) /\ enabled
        /\ reqs[r1].overlapped /\ reqs[r2].overlapped
        /\ Authorized(r1) /\ Rejected(r2, "invalid token")

\* C9 as stated: when the ApiToken was not registered with Rocket, no
\* request's check aborts because the state is missing.
C9_NoPanicPerRequest ==
    \A r \in Slots : ~managed => reqs[r].outcome.kind # "Panic"

\* C10: the enabled flag never changes, the accepted set only grows, and an
\* input that is Authorized in one state is Authorized in every later state.
C10_Monotonic ==
    [][/\ enabled' = enabled
       /\ tokens \subseteq tokens'
       /\ \A h \in Headers :
              Guard(tokens, enabled, h) = Success =>
                  Guard(tokens', enabled', h) = Success]_vars

C10_Witness ==
    \E r \in Slots : \E t \in passed :
        /\ Checked(r) /\ enabled /\ Authorized(r)
        /\ lastAdd # None /\ lastAdd[1] # t
        /\ reqs[r].header = Some(BearerLiteral \o t)
====
